---- MODULE Spec2Model ----
(***************************************************************************)
(* node-prince, prince-npm.js: NPM install-time integration.               *)
(*                                                                         *)
(* A model of the install/uninstall script as a state machine.  A run of   *)
(* the script is one Node process; the file system next to the script      *)
(* (the managed directory "prince", the downloaded archive, the staging    *)
(* directory) survives from one run to the next.                           *)
(*                                                                         *)
(* Text is modelled as sequences of one-character strings, so that the     *)
(* regular expressions of the script are computed, not assumed.            *)
(***************************************************************************)
EXTENDS Integers, Sequences, FiniteSets, TLC

(***************************************************************************)
(* Bounds of the model.                                                    *)
(***************************************************************************)
MaxRuns == 3

(***************************************************************************)
(* Characters and text.                                                    *)
(***************************************************************************)
Digit == {"0", "1", "2", "3", "4", "5", "6", "7", "8", "9"}

LowerSeq == << "a", "b", "c", "d", "e", "f", "g", "h", "i", "j", "k", "l", "m",
               "n", "o", "p", "q", "r", "s", "t", "u", "v", "w", "x", "y", "z" >>

UpperSeq == << "A", "B", "C", "D", "E", "F", "G", "H", "I", "J", "K", "L", "M",
               "N", "O", "P", "Q", "R", "S", "T", "U", "V", "W", "X", "Y", "Z" >>

Letter == {LowerSeq[i] : i \in 1..26} \cup {UpperSeq[i] : i \in 1..26}

LineTerminator == {"\n", "\r"}

Whitespace == {" ", "\t", "\n", "\r"}

\* String.prototype.toLowerCase
toLowerCase(s) ==
    [i \in 1..Len(s) |->
        IF \E k \in 1..26 : UpperSeq[k] = s[i]
        THEN LowerSeq[CHOOSE k \in 1..26 : UpperSeq[k] = s[i]]
        ELSE s[i]]

\* the value of a run of decimal digits
RECURSIVE DecimalValue(_)
DecimalValue(s) ==
    IF s = << >> THEN 0
    ELSE 10 * DecimalValue(SubSeq(s, 1, Len(s) - 1))
         + (CHOOSE d \in 0..9 : <<"0", "1", "2", "3", "4", "5", "6", "7", "8", "9">>[d + 1] = s[Len(s)])

\* all characters of s in positions a..b are in the class C (and a..b is inside s)
AllIn(s, a, b, C) == a >= 1 /\ b <= Len(s) /\ \A i \in a..b : s[i] \in C

(***************************************************************************)
(* getLinuxOSInfo: the pattern osRegex, three groups:                      *)
(*   an alphanumeric followed by any run of characters, then a dash,       *)
(*   then 1..10 letters,                                                   *)
(*   then [0-9]{1,5} any [0-9]{1,5} any-or-nothing [0-9]{1,5},             *)
(* matched, unanchored and case-insensitively, against the lower-cased     *)
(* output of "shtool platform -t binary".  The match found is the one the  *)
(* backtracking matcher finds first: leftmost start, every quantifier      *)
(* greedy.                                                                 *)
(***************************************************************************)

\* the matches of the third group that start at q, as
\* <<n1, n2, o, n3>>: the lengths of the digit runs and of the optional '.'
VersionMatches(s, q) ==
    { t \in (1..5) \X (1..5) \X (0..1) \X (1..5) :
        /\ AllIn(s, q, q + t[1] - 1, Digit)
        /\ q + t[1] <= Len(s) /\ s[q + t[1]] \notin LineTerminator
        /\ AllIn(s, q + t[1] + 1, q + t[1] + t[2], Digit)
        /\ t[3] = 1 => /\ q + t[1] + t[2] + 1 <= Len(s)
                       /\ s[q + t[1] + t[2] + 1] \notin LineTerminator
        /\ AllIn(s, q + t[1] + t[2] + t[3] + 1, q + t[1] + t[2] + t[3] + t[4], Digit) }

\* greedy order of two matches: t is tried before (or is) u
TriedFirst(t, u) ==
    \/ t[1] > u[1]
    \/ t[1] = u[1] /\ t[2] > u[2]
    \/ t[1] = u[1] /\ t[2] = u[2] /\ t[3] > u[3]
    \/ t[1] = u[1] /\ t[2] = u[2] /\ t[3] = u[3] /\ t[4] >= u[4]

\* the last position of the version group matched at q, 0 when there is no match
VersionEnd(s, q) ==
    IF VersionMatches(s, q) = {} THEN 0
    ELSE LET t == CHOOSE t \in VersionMatches(s, q) :
                      \A u \in VersionMatches(s, q) : TriedFirst(t, u)
         IN  q + t[1] + 1 + t[2] + t[3] + t[4] - 1

\* the lengths k of a distro name [a-zA-Z]{1,10} after the '-' at p that a version follows
NameLengths(s, p) ==
    { k \in 1..10 : AllIn(s, p + 1, p + k, Letter) /\ VersionEnd(s, p + k + 1) > 0 }

\* the positions p of a '-' that ends a first group started at st
DashPositions(s, st) ==
    { p \in (st + 1)..Len(s) :
        /\ s[p] = "-"
        /\ AllIn(s, st + 1, p - 1, {s[i] : i \in 1..Len(s)} \ LineTerminator)
        /\ NameLengths(s, p) # {} }

StartPositions(s) ==
    { st \in 1..Len(s) : s[st] \in Letter \cup Digit /\ DashPositions(s, st) # {} }

Max(S) == CHOOSE x \in S : \A y \in S : x >= y
Min(S) == CHOOSE x \in S : \A y \in S : x <= y

\* String.prototype.match(osRegex): "null" or the three groups
osRegexMatch(s) ==
    IF StartPositions(s) = {} THEN [matched |-> FALSE]
    ELSE LET st == Min(StartPositions(s))
             p  == Max(DashPositions(s, st))
             k  == Max(NameLengths(s, p))
         IN  [ matched   |-> TRUE,
               osCPUArch |-> SubSeq(s, st, p - 1),
               osName    |-> SubSeq(s, p + 1, p + k),
               osVersion |-> SubSeq(s, p + k + 1, VersionEnd(s, p + k + 1)) ]

\* getLinuxOSInfo, in the callback of child_process.exec:
\*   "reject"   the promise is rejected with the error of exec,
\*   "uncaught" the destructuring of a null match throws in the callback,
\*   "resolve"  the promise is resolved with the three groups.
getLinuxOSInfo(error, stdout) ==
    LET m == osRegexMatch(toLowerCase(stdout))
    IN  IF ~m.matched THEN [kind |-> "uncaught", err |-> "TypeError"]
        ELSE IF error THEN [kind |-> "reject", err |-> "ExecError"]
        ELSE [kind |-> "resolve", osCPUArch |-> m.osCPUArch,
              osName |-> m.osName, osVersion |-> m.osVersion]

(***************************************************************************)
(* What "shtool platform -t binary" may print (the input of                *)
(* getLinuxOSInfo), with and without an error of the child process.        *)
(***************************************************************************)
Out_amd64_ubuntu2004 == << "a", "m", "d", "6", "4", "-", "u", "b", "u", "n", "t", "u", "2", "0", ".", "0", "4", "\n" >>
Out_amd64_ubuntu1404 == << "a", "m", "d", "6", "4", "-", "u", "b", "u", "n", "t", "u", "1", "4", ".", "0", "4", "\n" >>
Out_amd64_ubuntu1510 == << "a", "m", "d", "6", "4", "-", "u", "b", "u", "n", "t", "u", "1", "5", ".", "1", "0", "\n" >>
Out_amd64_ubuntu16041 == << "a", "m", "d", "6", "4", "-", "u", "b", "u", "n", "t", "u", "1", "6", ".", "0", "4", ".", "1", "\n" >>
Out_amd64_ubuntu1804 == << "a", "m", "d", "6", "4", "-", "u", "b", "u", "n", "t", "u", "1", "8", ".", "0", "4", "\n" >>
Out_amd64_ubuntu2110 == << "a", "m", "d", "6", "4", "-", "u", "b", "u", "n", "t", "u", "2", "1", ".", "1", "0", "\n" >>
Out_amd64_ubuntu2204 == << "a", "m", "d", "6", "4", "-", "u", "b", "u", "n", "t", "u", "2", "2", ".", "0", "4", "\n" >>
Out_amd64_ubuntu1204 == << "a", "m", "d", "6", "4", "-", "u", "b", "u", "n", "t", "u", "1", "2", ".", "0", "4", "\n" >>
Out_AMD64_Ubuntu1710 == << "A", "M", "D", "6", "4", "-", "U", "b", "u", "n", "t", "u", "1", "7", ".", "1", "0", "\n" >>
Out_ix86_ubuntu1404 == << "i", "x", "8", "6", "-", "u", "b", "u", "n", "t", "u", "1", "4", ".", "0", "4", "\n" >>
Out_ix86_ubuntu1604 == << "i", "x", "8", "6", "-", "u", "b", "u", "n", "t", "u", "1", "6", ".", "0", "4", "\n" >>
Out_ix86_ubuntu1910 == << "i", "x", "8", "6", "-", "u", "b", "u", "n", "t", "u", "1", "9", ".", "1", "0", "\n" >>
Out_ix86_ubuntu2004 == << "i", "x", "8", "6", "-", "u", "b", "u", "n", "t", "u", "2", "0", ".", "0", "4", "\n" >>
Out_arm64_ubuntu2004 == << "a", "r", "m", "6", "4", "-", "u", "b", "u", "n", "t", "u", "2", "0", ".", "0", "4", "\n" >>
Out_amd64_debian913 == << "a", "m", "d", "6", "4", "-", "d", "e", "b", "i", "a", "n", "9", ".", "1", "3", "\n" >>
Out_amd64_debian10 == << "a", "m", "d", "6", "4", "-", "d", "e", "b", "i", "a", "n", "1", "0", "\n" >>
Out_amd64_debian1010 == << "a", "m", "d", "6", "4", "-", "d", "e", "b", "i", "a", "n", "1", "0", ".", "1", "0", "\n" >>
Out_amd64_centos79 == << "a", "m", "d", "6", "4", "-", "c", "e", "n", "t", "o", "s", "7", ".", "9", ".", "2", "0", "0", "9", "\n" >>
Out_ix86_debian811 == << "i", "x", "8", "6", "-", "d", "e", "b", "i", "a", "n", "8", ".", "1", "1", "\n" >>
Out_amd64_fedora34 == << "a", "m", "d", "6", "4", "-", "f", "e", "d", "o", "r", "a", "3", "4", "\n" >>
Out_amd64_alpine314 == << "a", "m", "d", "6", "4", "-", "a", "l", "p", "i", "n", "e", "3", ".", "1", "4", "\n" >>
Out_amd64_macosx1015 == << "a", "m", "d", "6", "4", "-", "m", "a", "c", "o", "s", "x", "1", "0", ".", "1", "5", "\n" >>
Out_garbage == << "s", "h", ":", " ", "1", ":", " ", "u", "n", "a", "m", "e", "\n" >>
Out_empty == << >>

ShtoolStdout ==
    { Out_amd64_ubuntu2004,
      Out_amd64_ubuntu1404,
      Out_amd64_ubuntu1510,
      Out_amd64_ubuntu16041,
      Out_amd64_ubuntu1804,
      Out_amd64_ubuntu2110,
      Out_amd64_ubuntu2204,
      Out_amd64_ubuntu1204,
      Out_AMD64_Ubuntu1710,
      Out_ix86_ubuntu1404,
      Out_ix86_ubuntu1604,
      Out_ix86_ubuntu1910,
      Out_ix86_ubuntu2004,
      Out_arm64_ubuntu2004,
      Out_amd64_debian913,
      Out_amd64_debian10,
      Out_amd64_debian1010,
      Out_amd64_centos79,
      Out_ix86_debian811,
      Out_amd64_fedora34,
      Out_amd64_alpine314,
      Out_amd64_macosx1015,
      Out_garbage,
      Out_empty }

\* what the callback of exec is called with: any of these texts without an
\* error, and an error with a text that parses and with texts that do not
ShtoolResults ==
    [error : {FALSE}, stdout : ShtoolStdout]
        \cup [error : {TRUE}, stdout : {Out_amd64_ubuntu2004, Out_garbage, Out_empty}]

\* each of these inputs with what getLinuxOSInfo makes of it
ShtoolOutcomes ==
    { [res |-> res, info |-> getLinuxOSInfo(res.error, res.stdout)] : res \in ShtoolResults }

\* the distro names and architectures princeDownloadURL compares with
ubuntu == << "u", "b", "u", "n", "t", "u" >>
debian == << "d", "e", "b", "i", "a", "n" >>
centos == << "c", "e", "n", "t", "o", "s" >>
alpine == << "a", "l", "p", "i", "n", "e" >>
amd64  == << "a", "m", "d", "6", "4" >>
ix86   == << "i", "x", "8", "6" >>

(***************************************************************************)
(* princeDownloadURL.                                                      *)
(***************************************************************************)
PRINCE_VERSION == 14

\* the template literals https://www.princexml.com/download/prince-${PRINCE_VERSION}-<file>
DownloadURL(file) == [version |-> PRINCE_VERSION, file |-> file]

\* r matches (?:\.\d+)*$ : a sequence of groups of a dot and digits, up to the end
DotDigitGroups(r) ==
    /\ \A i \in 1..Len(r) : r[i] \in Digit \cup {"."}
    /\ \A i \in 1..Len(r) : r[i] = "." => (i < Len(r) /\ r[i + 1] \in Digit)
    /\ Len(r) > 0 => r[1] = "."

\* RegExp.prototype.test for the patterns ^<one of prefixes>(?:\.\d+)*$
VersionTest(prefixes, v) ==
    \E pre \in prefixes :
        /\ Len(v) >= Len(pre)
        /\ SubSeq(v, 1, Len(pre)) = pre
        /\ DotDigitGroups(SubSeq(v, Len(pre) + 1, Len(v)))

\* the outcomes of the executor of princeDownloadURL:
\*   "resolve"  resolve(url) was called,
\*   "throw"    the async executor threw: its own promise is rejected and
\*              nobody handles it; the promise returned to install stays pending,
\*   "pending"  the executor returned without calling resolve and without throwing,
\*   "uncaught" an exception escaped a callback (getLinuxOSInfo).
Resolved(file) == [kind |-> "resolve", url |-> DownloadURL(file)]
Thrown(err)    == [kind |-> "throw", err |-> err]
NeverSettled   == [kind |-> "pending"]

ubuntuURL_narrow(osCPUArch, osVersion) ==
    CASE osCPUArch = amd64 ->
            IF VersionTest({<<"1", "4">>, <<"1", "5">>}, osVersion)
            THEN Resolved("ubuntu14.04-amd64.tar.gz")
            ELSE IF VersionTest({<<"1", "6">>, <<"1", "7">>}, osVersion)
            THEN Resolved("ubuntu16.04-amd64.tar.gz")
            ELSE IF VersionTest({<<"1", "8">>, <<"1", "9">>}, osVersion)
            THEN Resolved("ubuntu18.04-amd64.tar.gz")
            ELSE IF VersionTest({<<"2", "0">>}, osVersion)
            THEN Resolved("ubuntu20.04-amd64.tar.gz")
            ELSE Thrown("UnknownVersion")
      [] osCPUArch = ix86 ->
            IF VersionTest({<<"1", "4">>, <<"1", "5">>}, osVersion)
            THEN Resolved("ubuntu14.04-i386.tar.gz")
            ELSE IF VersionTest({<<"1", "6">>, <<"1", "7">>}, osVersion)
            THEN Resolved("ubuntu16.04-i386.tar.gz")
            ELSE IF VersionTest({<<"1", "8">>, <<"1", "9">>}, osVersion)
            THEN Resolved("ubuntu18.04-i386.tar.gz")
            ELSE Thrown("UnknownVersion")
      [] OTHER -> Thrown("UnsupportedArchitecture")

\* case "linux" / case 'ubuntu', lines 132-183
ubuntuURL(osCPUArch, osVersion) ==
    CASE osCPUArch = amd64 ->
            IF VersionTest({<<"1", "4">>, <<"1", "5">>}, osVersion)
            THEN Resolved("ubuntu14.04-amd64.tar.gz")
            ELSE IF VersionTest({<<"1", "6">>, <<"1", "7">>}, osVersion)
            THEN Resolved("ubuntu16.04-amd64.tar.gz")
            ELSE IF VersionTest({<<"1", "8">>, <<"1", "9">>}, osVersion)
            THEN Resolved("ubuntu18.04-amd64.tar.gz")
            ELSE IF VersionTest({<<"2", "0">>, <<"2", "1">>}, osVersion)
            THEN Resolved("ubuntu20.04-amd64.tar.gz")
            ELSE Thrown("UnknownVersion")
      [] osCPUArch = ix86 ->
            IF VersionTest({<<"1", "4">>, <<"1", "5">>}, osVersion)
            THEN Resolved("ubuntu14.04-i386.tar.gz")
            ELSE IF VersionTest({<<"1", "6">>, <<"1", "7">>}, osVersion)
            THEN Resolved("ubuntu16.04-i386.tar.gz")
            ELSE IF VersionTest({<<"1", "8">>, <<"1", "9">>}, osVersion)
            THEN Resolved("ubuntu18.04-i386.tar.gz")
            ELSE Thrown("UnknownVersion")
      [] OTHER -> Thrown("UnsupportedArchitecture")

\* case "linux", lines 129-186: the inner switch has the single case 'ubuntu'
\* and no default
linuxURL(info) ==
    CASE info.kind = "uncaught" -> info
      [] info.kind = "reject"   -> Thrown(info.err)
      [] OTHER ->
            IF info.osName = ubuntu
            THEN ubuntuURL(info.osCPUArch, info.osVersion)
            ELSE NeverSettled

\* case "darwin", lines 122-127
darwinURL(info) ==
    CASE info.kind = "uncaught" -> info
      [] info.kind = "reject"   -> Thrown(info.err)
      [] OTHER -> Resolved("macos.zip")

\* case "wind32", lines 103-121
windowsURL(arch) ==
    CASE arch = "x64"            -> Resolved("win64-setup.exe")
      [] arch \in {"ia32", "x32"} -> Resolved("win32-setup.exe")
      [] OTHER                   -> Thrown("UnsupportedArchitecture")

\* the switch on process.platform, lines 101-254.  The cases 'debian',
\* 'centos' and 'alpine' are cases of this switch, outside the block that
\* declares osCPUArch and osVersion: they read an undeclared name.
princeDownloadURL(platform, arch, info) ==
    CASE platform = "wind32" -> windowsURL(arch)
      [] platform = "darwin" -> darwinURL(info)
      [] platform = "linux"  -> linuxURL(info)
      [] platform \in {"debian", "centos", "alpine"} -> Thrown("ReferenceError")
      [] OTHER -> Thrown("UnsupportedPlatform")

\* the platforms that run getLinuxOSInfo
CallsShtool(platform) == platform \in {"darwin", "linux"}

(***************************************************************************)
(* princeInfo: which("prince"), then "prince --version", then the banner   *)
(* matched against ^Prince\s+(\d+(?:\.\d+)?)                               *)
(***************************************************************************)
Banner_14_2 == << "P", "r", "i", "n", "c", "e", " ", "1", "4", ".", "2", "\n", "C", "o", "p", "y", "r", "i", "g", "h", "t", " ", "2", "0", "0", "2", "-", "2", "0", "2", "1", " ", "Y", "e", "s", "L", "o", "g", "i", "c", " ", "P", "t", "y", ".", " ", "L", "t", "d", ".", "\n" >>
Banner_11 == << "P", "r", "i", "n", "c", "e", " ", "1", "1", "\n" >>
Banner_lower == << "p", "r", "i", "n", "c", "e", " ", "1", "4", "\n" >>
Banner_nospace == << "P", "r", "i", "n", "c", "e", "1", "4", "\n" >>
Banner_books == << "P", "r", "i", "n", "c", "e", " ", "f", "o", "r", " ", "B", "o", "o", "k", "s", " ", "2", "0", "1", "9", "0", "4", "0", "2", "\n" >>
Banner_usage == << "U", "s", "a", "g", "e", ":", "\n" >>
Banner_empty == << >>

Banners ==
    { Banner_14_2,
      Banner_11,
      Banner_lower,
      Banner_nospace,
      Banner_books,
      Banner_usage,
      Banner_empty }

\* the length of the longest run of characters of class C that starts at q
RunLength(s, q, C) == Max({ n \in 0..Len(s) : AllIn(s, q, q + n - 1, C) })

\* String.prototype.match for the banner pattern: "null" or the group m[1]
bannerMatch(stdout) ==
    LET Prince == << "P", "r", "i", "n", "c", "e" >>
        ws     == RunLength(stdout, 7, Whitespace)
        major  == RunLength(stdout, 7 + ws, Digit)
        dot    == 7 + ws + major
        minor  == IF dot <= Len(stdout) /\ stdout[dot] = "."
                  THEN RunLength(stdout, dot + 1, Digit) ELSE 0
    IN  IF /\ Len(stdout) >= 6 /\ SubSeq(stdout, 1, 6) = Prince
           /\ ws >= 1 /\ major >= 1
        THEN [ matched |-> TRUE,
               version |-> SubSeq(stdout, 7 + ws,
                                  IF minor >= 1 THEN dot + minor ELSE dot - 1) ]
        ELSE [ matched |-> FALSE ]

\* what the callbacks of which and of execFile are called with: execFile
\* runs only when which found the command
ProbeInputs ==
    [whichError : {TRUE}, execError : {FALSE}, stdout : {Banner_empty}]
        \cup [whichError : {FALSE}, execError : {TRUE}, stdout : {Banner_empty, Banner_14_2}]
        \cup [whichError : {FALSE}, execError : {FALSE}, stdout : Banners]

\* princeInfo, lines 54-83: the promise is rejected in three places and
\* resolved with the command and the version otherwise
princeInfo(in) ==
    CASE in.whichError -> [kind |-> "reject", err |-> "NotFound"]
      [] in.execError  -> [kind |-> "reject", err |-> "VersionFailed"]
      [] ~bannerMatch(in.stdout).matched -> [kind |-> "reject", err |-> "UnexpectedOutput"]
      [] OTHER -> [kind |-> "resolve", version |-> bannerMatch(in.stdout).version]

\* each of these inputs with what princeInfo makes of it
ProbeOutcomes == { [in |-> in, result |-> princeInfo(in)] : in \in ProbeInputs }

(***************************************************************************)
(* The process and the file system.                                        *)
(***************************************************************************)
VARIABLES
    platform,   \* process.platform of the host
    arch,       \* process.arch of the host
    nodeMode,   \* what this Node does with an unhandled rejection: "warn" (14) or "throw" (15+)
    runs,       \* the number of processes started so far
    argv,       \* process.argv without the first two entries
    pc,         \* where the current process is
    probe,      \* the outcome of princeInfo
    osInfo,     \* the outcome of getLinuxOSInfo, while princeDownloadURL holds it
    resolved,   \* the outcome of princeDownloadURL
    requests,   \* the number of HTTP requests issued by the current process
    http_proxy, \* process.env.http_proxy as downloadData has read it
    npmProxy,   \* what "npm config get proxy" has given downloadData
    options,    \* the options of the request, while downloadData holds them
    response,   \* what the callback of request was called with
    data,       \* TRUE once downloadData was resolved with a body
    failure,    \* the first failure of the current process: its step and its error
    surfaced,   \* the error the current process has reported, "none" if none
    tempDir,    \* the variable tempDir of the darwin branch is assigned
    writing,    \* the fs.writeFile started by saveFileToDisk
    fault,      \* an operation of the current process has failed for a reason
                \* outside the script, or unzipArchive has not found a distribution
    out,        \* what the current process has printed (stdout and stderr)
    exitCode,   \* the exit status of the current process, -1 while it runs
    fs,         \* the files next to the script
    fs0,        \* fs when the current process started
    prev        \* the previous process: its command, the managed directory it
                \* started from, whether it downloaded, whether it failed, and
                \* its exit status

vars == << platform, arch, nodeMode, runs, argv, pc, probe, osInfo, resolved,
           requests, http_proxy, npmProxy, options, response,
           data, failure, surfaced, tempDir, writing, fault, out,
           exitCode, fs, fs0, prev >>

\* the variables of the darwin branch
zipvars == << tempDir, writing >>

host == << platform, arch, nodeMode >>

\* the variables of downloadData
download == << http_proxy, npmProxy, options, response >>

Platforms == {"win32", "darwin", "linux", "freebsd"}
Archs     == {"x64", "ia32"}
NodeModes == {"warn", "throw"}

Argvs == { << >>, <<"install">>, <<"uninstall">>, <<"remove">>, <<"install", "--force">> }

None == [kind |-> "none"]
NoFailure == [step |-> "none", err |-> "none"]

\* the managed directory path.join(__dirname, "prince"): "absent", "empty",
\* "partial" (some files of a distribution) or "complete";
\* chmod: makePrinceExecutable has set the mode of the two executables in it;
\* tgz: path.join(__dirname, "prince.tgz") exists;
\* tmp: the staging directory made by mkdtemp in this run, "absent" or "exists";
\* zip: prince.zip in it, "absent", "partial" (being written) or "complete";
\* entries: what was unzipped into it; stray: staging directories left by earlier runs
EmptyDisk == [destdir |-> "absent", chmod |-> FALSE, tgz |-> FALSE,
              tmp |-> "absent", zip |-> "absent", entries |-> "none", stray |-> 0]

NoProcess == [cmd |-> "none", from |-> "absent", data |-> FALSE, failed |-> FALSE,
              fault |-> FALSE, exitCode |-> -1]

\* process.arch is read in the Windows case of princeDownloadURL alone:
\* the hosts of the other platforms are taken with one architecture
Init ==
    /\ platform \in Platforms
    /\ arch \in IF platform = "win32" THEN Archs ELSE {"x64"}
    /\ nodeMode \in NodeModes
    /\ runs = 0
    /\ argv = << >>
    /\ pc = "none"
    /\ probe = None
    /\ osInfo = None
    /\ resolved = None
    /\ requests = 0
    /\ http_proxy = None
    /\ npmProxy = None
    /\ options = None
    /\ response = None
    /\ data = FALSE
    /\ failure = NoFailure
    /\ surfaced = "none"
    /\ tempDir = FALSE
    /\ writing = "none"
    /\ fault = FALSE
    /\ out = {}
    /\ exitCode = -1
    /\ fs = EmptyDisk
    /\ fs0 = EmptyDisk
    /\ prev = NoProcess

dispatch_firstArgument(a) ==
    IF Len(a) = 0 THEN "ERROR: invalid number of arguments"
    ELSE IF a[1] = "install" THEN "install"
    ELSE IF a[1] = "uninstall" THEN "uninstall"
    ELSE "ERROR: invalid argument"

\* what the main procedure, lines 425-429 and 588-595, does with its arguments
dispatch(a) ==
    IF Len(a) + 2 # 3 THEN "ERROR: invalid number of arguments"
    ELSE IF a[1] = "install" THEN "install"
    ELSE IF a[1] = "uninstall" THEN "uninstall"
    ELSE "ERROR: invalid argument"

\* mkdtemp makes a new directory in every run: a staging directory that an
\* earlier run left is a stray one from now on
NewRun(disk) ==
    IF disk.tmp = "absent" THEN disk
    ELSE [disk EXCEPT !.tmp = "absent", !.zip = "absent", !.entries = "none",
                      !.stray = disk.stray + 1]

\* "node ./prince-npm.js <a>" is started, after the previous process has ended
Start(a) ==
    /\ pc \in {"none", "exited"}
    /\ runs < MaxRuns
    /\ runs' = runs + 1
    /\ argv' = a
    /\ pc' = "main"
    /\ probe' = None
    /\ osInfo' = None
    /\ resolved' = None
    /\ requests' = 0
    /\ http_proxy' = None
    /\ npmProxy' = None
    /\ options' = None
    /\ response' = None
    /\ data' = FALSE
    /\ failure' = NoFailure
    /\ surfaced' = "none"
    /\ tempDir' = FALSE
    /\ writing' = "none"
    /\ fault' = FALSE
    /\ out' = {}
    /\ exitCode' = -1
    /\ fs' = NewRun(fs)
    /\ fs0' = NewRun(fs)
    /\ prev' = IF pc = "none" THEN NoProcess
               ELSE [cmd |-> dispatch(argv), from |-> fs0.destdir, data |-> data,
                     failed |-> failure # NoFailure, fault |-> fault,
                     exitCode |-> exitCode]
    /\ UNCHANGED host

(***************************************************************************)
(* How a Node process ends.                                                *)
(***************************************************************************)
\* an exception escapes a callback: the error is printed and the exit status is 1
Uncaught(step, err, printed) ==
    /\ failure' = IF failure = NoFailure THEN [step |-> step, err |-> err] ELSE failure
    /\ surfaced' = err
    /\ out' = out \cup printed \cup {"Uncaught"}
    /\ exitCode' = 1
    /\ pc' = "exited"

\* what Node does with a rejected promise that has no handler
unhandledRejection(mode) ==
    IF mode = "throw"
    THEN [print |-> "Uncaught", exitCode |-> 1, pc |-> "exited"]
    ELSE [print |-> "UnhandledPromiseRejectionWarning", exitCode |-> -1, pc |-> "idle"]

\* a promise without a rejection handler is rejected with err; origin is the
\* error that started the failure
UnhandledAs(step, origin, err, printed) ==
    /\ failure' = IF failure = NoFailure THEN [step |-> step, err |-> origin] ELSE failure
    /\ surfaced' = err
    /\ out' = out \cup printed \cup {unhandledRejection(nodeMode).print}
    /\ exitCode' = unhandledRejection(nodeMode).exitCode
    /\ pc' = unhandledRejection(nodeMode).pc

Unhandled(step, err, printed) == UnhandledAs(step, err, err, printed)

\* nothing is left to run: the process ends with status 0
Exit ==
    /\ pc = "idle"
    /\ writing \notin {"pending", "orphan"}
    /\ pc' = "exited"
    /\ exitCode' = 0
    /\ UNCHANGED << host, fault, runs, argv, probe, osInfo, resolved, requests, download, data,
                    failure, surfaced, zipvars, out, fs, fs0, prev >>

(***************************************************************************)
(* The main procedure, lines 425-429 and 588-595.                          *)
(***************************************************************************)
InvalidArguments ==
    /\ pc = "main"
    /\ dispatch(argv) \notin {"install", "uninstall"}
    /\ out' = out \cup {dispatch(argv)}
    /\ exitCode' = 1
    /\ pc' = "exited"
    /\ UNCHANGED << host, fault, runs, argv, probe, osInfo, resolved, requests, download, data,
                    failure, surfaced, zipvars, fs, fs0, prev >>

\* install(), line 435 and the call of princeInfo
InstallStart ==
    /\ pc = "main"
    /\ dispatch(argv) = "install"
    /\ out' = out \cup {"++ checking for globally installed PrinceXML"}
    /\ pc' = "princeInfo"
    /\ UNCHANGED << host, fault, runs, argv, probe, osInfo, resolved, requests, download, data,
                    failure, surfaced, zipvars, exitCode, fs, fs0, prev >>

(***************************************************************************)
(* install, lines 433-574.                                                 *)
(***************************************************************************)
\* princeInfo().then(onFulfilled, onRejected), lines 436-443: the install
\* path is the rejection handler
installContinues_always(r) == TRUE

installContinues_notFoundOnly(r) == r.kind = "reject" /\ r.err = "NotFound"

installContinues(r) == r.kind = "reject"

\* what follows the outcome u of princeDownloadURL: only a resolved promise
\* calls the function given to then(), line 443; there is no rejection handler
AfterResolve(u, printed) ==
    /\ resolved' = u
    /\ CASE u.kind = "uncaught" -> Uncaught("identify", u.err, printed)
         [] u.kind = "throw" ->
                Unhandled(IF u.err = "ExecError" THEN "identify" ELSE "resolve", u.err, printed)
         [] u.kind = "pending" ->
                /\ pc' = "idle"
                /\ out' = out \cup printed
                /\ UNCHANGED << failure, surfaced, exitCode >>
         [] OTHER ->
                /\ pc' = "request"
                /\ out' = out \cup printed
                /\ UNCHANGED << failure, surfaced, exitCode >>

\* the callbacks of which() and of execFile() in princeInfo, and the handler
\* of install that runs next; on the platforms that do not run shtool the
\* executor of princeDownloadURL runs to its end in the same turn
ProbeDone(o) ==
    /\ pc = "princeInfo"
    /\ probe' = o.result
    /\ IF ~installContinues(o.result)
       THEN /\ out' = out \cup {"-- found prince(1) command"}
            /\ pc' = "idle"
            /\ UNCHANGED << resolved, failure, surfaced, exitCode >>
       ELSE IF CallsShtool(platform)
       THEN /\ out' = out \cup {"++ downloading PrinceXML distribution"}
            /\ pc' = "shtool"
            /\ UNCHANGED << resolved, failure, surfaced, exitCode >>
       ELSE AfterResolve(princeDownloadURL(platform, arch, None),
                         {"++ downloading PrinceXML distribution"})
    /\ UNCHANGED << host, fault, runs, argv, osInfo, requests, download, data, zipvars, fs, fs0, prev >>

\* the callback of child_process.exec in getLinuxOSInfo, and the rest of the
\* executor of princeDownloadURL
ShtoolDone(o) ==
    /\ pc = "shtool"
    /\ osInfo' = o.info
    /\ AfterResolve(princeDownloadURL(platform, arch, o.info), {})
    /\ fault' = (fault \/ o.res.error)
    /\ UNCHANGED << host, runs, argv, probe, requests, download, data, zipvars, fs, fs0, prev >>

(***************************************************************************)
(* downloadData, lines 259-320.                                            *)
(***************************************************************************)
Proxy_env    == << "h", "t", "t", "p", ":", "/", "/", "e", ":", "1" >>
Proxy_plain  == << "d", "i", "r", "e", "c", "t" >>

\* process.env.http_proxy: not set, set to the empty string, set to a value
Envs == { [set |-> FALSE, value |-> << >>],
          [set |-> TRUE,  value |-> << >>],
          [set |-> TRUE,  value |-> Proxy_env],
          [set |-> TRUE,  value |-> Proxy_plain] }

Npm_null       == << "n", "u", "l", "l", "\n" >>
Npm_http       == << "h", "t", "t", "p", ":", "/", "/", "n", ":", "2", "\n" >>
Npm_https_crlf == << "h", "t", "t", "p", "s", ":", "/", "/", "n", "\r", "\n" >>
Npm_http_bare  == << "h", "t", "t", "p", ":", "/", "/", "n" >>
Npm_http_empty == << "h", "t", "t", "p", ":", "/", "/", "\n" >>
Npm_ftp        == << "f", "t", "p", ":", "/", "/", "n", "\n" >>
Npm_upper      == << "H", "T", "T", "P", ":", "/", "/", "n", "\n" >>
Npm_empty      == << >>

NpmStdout == { Npm_null, Npm_http, Npm_https_crlf, Npm_http_bare, Npm_http_empty,
               Npm_ftp, Npm_upper, Npm_empty }

\* what the callback of exec("npm config get proxy") is called with
NpmResults ==
    [error : {FALSE}, stdout : NpmStdout] \cup [error : {TRUE}, stdout : {Npm_empty, Npm_http}]

\* the test of lines 270-273
useEnvProxy_never(env) == FALSE

useEnvProxy(env) == env.set /\ env.value # << >>

\* stdout.replace of an optional carriage return and a newline at the end
\* of the text by nothing, line 283
stripNewline(s) ==
    IF Len(s) >= 2 /\ s[Len(s) - 1] = "\r" /\ s[Len(s)] = "\n"
    THEN SubSeq(s, 1, Len(s) - 2)
    ELSE IF Len(s) >= 1 /\ s[Len(s)] = "\n"
    THEN SubSeq(s, 1, Len(s) - 1)
    ELSE s

\* stdout.match of line 284: "http", an optional "s", "://" and then at
\* least one character that is not a line terminator
proxyMatch(s) ==
    LET http  == << "h", "t", "t", "p", ":", "/", "/" >>
        https == << "h", "t", "t", "p", "s", ":", "/", "/" >>
    IN  \E pre \in {http, https} :
            /\ Len(s) > Len(pre)
            /\ SubSeq(s, 1, Len(pre)) = pre
            /\ s[Len(pre) + 1] \notin LineTerminator

NoProxy == [set |-> FALSE, value |-> << >>]

\* options.proxy after the callback of exec, lines 282-290
npmConfigProxy(res) ==
    IF ~res.error /\ proxyMatch(stripNewline(res.stdout))
    THEN [set |-> TRUE, value |-> stripNewline(res.stdout)]
    ELSE NoProxy

\* the function given to then() at line 294: the request is issued with
\* the options, lines 295-296; printed is the line about the proxy, without
\* the place the proxy comes from
SendRequest(printed) ==
    /\ requests' = requests + 1
    /\ out' = out \cup printed \cup {"-- download: url"}
    /\ pc' = "response"

\* the function given to then() at line 443 gets the URL alone and calls
\* downloadData, whose executor reads the environment, lines 261-277, and
\* with a proxy from it goes on to the request in the same turn
DownloadData(env) ==
    /\ pc = "request"
    /\ osInfo' = None
    /\ http_proxy' = env
    /\ response' = None
    /\ IF useEnvProxy(env)
       THEN /\ options' = [proxy |-> [set |-> TRUE, value |-> env.value]]
            /\ npmProxy' = None
            /\ SendRequest({"-- using proxy"})
       ELSE /\ options' = [proxy |-> NoProxy]
            /\ npmProxy' = [kind |-> "running"]
            /\ pc' = "npmConfig"
            /\ UNCHANGED << requests, out >>
    /\ UNCHANGED << host, fault, runs, argv, probe, resolved, data, failure,
                    surfaced, zipvars, exitCode, fs, fs0, prev >>

\* the callback of exec("npm config get proxy"), lines 278-292, and the
\* request that follows it
NpmConfigDone(res) ==
    /\ pc = "npmConfig"
    /\ npmProxy' = [kind |-> "done", error |-> res.error, stdout |-> res.stdout]
    /\ options' = [proxy |-> npmConfigProxy(res)]
    /\ SendRequest(IF npmConfigProxy(res).set THEN {"-- using proxy"} ELSE {})
    /\ UNCHANGED << host, fault, runs, argv, probe, osInfo, resolved, http_proxy, response,
                    data, failure, surfaced, zipvars, exitCode, fs, fs0, prev >>

Responses == [error : BOOLEAN, statusCode : {200, 404, 500}]

\* the test of the callback of request, line 297
downloadOK_anyStatus(resp) == ~resp.error

downloadOK(resp) == ~resp.error /\ resp.statusCode = 200

\* the callback of request, lines 296-301, and for a failure the rejection
\* handler of install, lines 567-569; the options and what downloadData
\* has read end with it
Response(resp) ==
    /\ pc = "response"
    /\ response' = resp
    /\ http_proxy' = None
    /\ npmProxy' = None
    /\ options' = None
    /\ IF downloadOK(resp)
       THEN /\ data' = TRUE
            /\ out' = out \cup {"-- download: bytes received"}
            /\ pc' = "unpack"
            /\ UNCHANGED << failure, surfaced >>
       ELSE /\ failure' = [step |-> "fetch", err |-> "DownloadFailed"]
            /\ surfaced' = "DownloadFailed"
            /\ out' = out \cup {"** ERROR: failed to download"}
            /\ pc' = "idle"
            /\ UNCHANGED data
    /\ fault' = (fault \/ ~downloadOK(resp))
    /\ UNCHANGED << host, runs, argv, probe, osInfo, resolved, requests,
                    zipvars, exitCode, fs, fs0, prev >>

\* mkdirp.sync
mkdirp(dir) == IF dir = "absent" THEN "empty" ELSE dir

\* case "linux", lines 540-561: the archive is written next to the script,
\* the managed directory is made and the extraction into it is started.
\* An exception of writeFileSync or mkdirp.sync rejects the promise of the
\* async function, which has no handler.
LinuxUnpack(io) ==
    /\ pc = "unpack"
    /\ platform = "linux"
    /\ CASE io = "writeFileSync throws" ->
                /\ Unhandled("extract", "IOFailure", {"++ locally unpacking PrinceXML distribution"})
                /\ UNCHANGED fs
         [] io = "mkdirp throws" ->
                /\ Unhandled("extract", "IOFailure", {"++ locally unpacking PrinceXML distribution"})
                /\ fs' = [fs EXCEPT !.tgz = TRUE]
         [] OTHER ->
                /\ fs' = [fs EXCEPT !.tgz = TRUE, !.destdir = mkdirp(fs.destdir)]
                /\ out' = out \cup {"++ locally unpacking PrinceXML distribution"}
                /\ pc' = "extractTarball"
                /\ UNCHANGED << failure, surfaced, exitCode >>
    /\ fault' = (fault \/ io # "ok")
    /\ UNCHANGED << host, runs, argv, probe, osInfo, resolved, requests, download, data,
                    zipvars, fs0, prev >>

\* what a broken extraction leaves of the directory it extracts into
Broken(dir) == {dir, "partial"}

\* extractTarball, lines 323-337, and its two handlers in install, lines 546-558.
\*   "close": the pipeline ends, the promise is resolved;
\*   "error": tar.extract emits an error, the promise is rejected;
\*   "stream error": the read stream or gunzip emits an error: they have no listener.
TarballDone(event, left) ==
    /\ pc = "extractTarball"
    /\ left \in Broken(fs.destdir)
    /\ CASE event = "close" ->
                /\ fs' = [fs EXCEPT !.destdir = "complete", !.tgz = FALSE]
                /\ out' = out \cup {"-- OK: local PrinceXML installation now available"}
                /\ pc' = "idle"
                /\ UNCHANGED << failure, surfaced, exitCode >>
         [] event = "error" ->
                /\ fs' = [fs EXCEPT !.destdir = left]
                /\ failure' = [step |-> "extract", err |-> "ExtractionFailed"]
                /\ surfaced' = "ExtractionFailed"
                /\ out' = out \cup {"** ERROR: failed to extract"}
                /\ pc' = "idle"
                /\ UNCHANGED exitCode
         [] OTHER ->
                /\ fs' = [fs EXCEPT !.destdir = left]
                /\ Uncaught("extract", "ExtractionFailed", {})
    /\ fault' = (fault \/ event # "close")
    /\ UNCHANGED << host, runs, argv, probe, osInfo, resolved, requests, download, data,
                    zipvars, fs0, prev >>

(***************************************************************************)
(* case "darwin", lines 486-538.  Every exception of the try block runs    *)
(* the catch block, which removes the staging directory and throws again;  *)
(* the promise of the async function then has no rejection handler.        *)
(***************************************************************************)
\* the beginning of the async function, up to the call of createTmpDir
DarwinUnpack ==
    /\ pc = "unpack"
    /\ platform = "darwin"
    /\ out' = out \cup {"++ locally unpacking PrinceXML distribution"}
    /\ pc' = "createTmpDir"
    /\ UNCHANGED << host, fault, runs, argv, probe, osInfo, resolved, requests, download, data,
                    failure, surfaced, zipvars, exitCode, fs, fs0, prev >>

\* an exception in the try block: the catch block starts removeTmpDir(tempDir)
Catch(err) ==
    /\ failure' = IF failure = NoFailure THEN [step |-> "extract", err |-> err] ELSE failure
    /\ pc' = "catch"
    /\ UNCHANGED << surfaced, out, exitCode >>

\* the callback of fs.mkdtemp, lines 351-355.  With a directory: tempDir is
\* assigned, saveFileToDisk starts fs.writeFile and returns a promise that
\* does not wait for it, and unzipArchive opens the archive.  With an error:
\* the catch block calls fs.rmdir(undefined), which throws a TypeError.
CreateTmpDirDone(ok) ==
    /\ pc = "createTmpDir"
    /\ IF ok
       THEN /\ tempDir' = TRUE
            /\ fs' = [fs EXCEPT !.tmp = "exists"]
            /\ writing' = "pending"
            /\ pc' = "unzipArchive"
            /\ UNCHANGED << failure, surfaced, out, exitCode >>
       ELSE /\ UnhandledAs("extract", "IOFailure", "TypeError", {})
            /\ UNCHANGED << tempDir, writing, fs >>
    /\ fault' = (fault \/ ~ok)
    /\ UNCHANGED << host, runs, argv, probe, osInfo, resolved, requests, download, data, fs0, prev >>

\* fs.writeFile writes prince.zip, in the background
WriteFileStep ==
    /\ writing \in {"pending", "orphan"}
    /\ pc # "exited"
    /\ IF writing = "orphan"
       THEN /\ writing' = "done"
            /\ UNCHANGED fs
       ELSE /\ fs' = [fs EXCEPT !.zip = IF fs.zip = "absent" THEN "partial" ELSE "complete"]
            /\ writing' = IF fs.zip = "absent" THEN "pending" ELSE "done"
    /\ UNCHANGED << host, fault, runs, argv, pc, probe, osInfo, resolved, requests, download, data,
                    failure, surfaced, tempDir, out, exitCode, fs0, prev >>

\* the callback of fs.writeFile with an error, line 342: the promise made in
\* saveFileToDisk is rejected, and nothing waits for it
WriteFileFails ==
    /\ writing \in {"pending", "orphan"}
    /\ pc # "exited"
    /\ writing' = "failed"
    /\ failure' = IF failure = NoFailure THEN [step |-> "extract", err |-> "IOFailure"] ELSE failure
    /\ surfaced' = "IOFailure"
    /\ out' = out \cup {unhandledRejection(nodeMode).print}
    /\ exitCode' = unhandledRejection(nodeMode).exitCode
    /\ pc' = IF unhandledRejection(nodeMode).pc = "exited" THEN "exited" ELSE pc
    /\ fault' = TRUE
    /\ UNCHANGED << host, runs, argv, probe, osInfo, resolved, requests, download, data,
                    tempDir, fs, fs0, prev >>

\* what the read stream of unzipArchive finds of the archive
Unzipped(zip) ==
    CASE zip = "absent"  -> {"no file"}
      [] zip = "partial" -> {"error", "dirTruncated"}
      [] OTHER           -> {"error", "none", "dir", "file", "two"}

\* unzipArchive, lines 369-380: the read stream has no error listener, the
\* extractor rejects on its error and resolves on its close; after it,
\* lines 500-503, the archive is deleted and the directory is listed
UnzipArchiveDone(found) ==
    /\ pc = "unzipArchive"
    /\ found \in Unzipped(fs.zip)
    /\ CASE found = "no file" ->
                /\ Uncaught("extract", "IOFailure", {})
                /\ UNCHANGED << fs, writing >>
         [] found = "error" ->
                /\ Catch("ExtractionFailed")
                /\ UNCHANGED << fs, writing >>
         [] OTHER ->
                /\ fs' = [fs EXCEPT !.zip = "absent", !.entries = found]
                /\ writing' = IF writing = "pending" THEN "orphan" ELSE writing
                /\ pc' = "readDir"
                /\ UNCHANGED << failure, surfaced, out, exitCode >>
    /\ fault' = (fault \/ found # "dir")
    /\ UNCHANGED << host, runs, argv, probe, osInfo, resolved, requests, download, data,
                    tempDir, fs0, prev >>

\* files.length, for what was unzipped
TopLevelEntries(entries) ==
    CASE entries = "none" -> 0
      [] entries = "two"  -> 2
      [] OTHER            -> 1

\* the callback of fs.readdir, and lines 505-515 and 530
ReadDirDone(ok) ==
    /\ pc = "readDir"
    /\ IF ~ok THEN Catch("IOFailure")
       ELSE IF TopLevelEntries(fs.entries) = 0 THEN Catch("UnexpectedArchiveLayout")
       ELSE /\ pc' = IF TopLevelEntries(fs.entries) = 1 THEN "readFileStat" ELSE "removeTmpDir"
            /\ UNCHANGED << failure, surfaced, out, exitCode >>
    /\ fault' = (fault \/ ~ok)
    /\ UNCHANGED << host, runs, argv, probe, osInfo, resolved, requests, download, data,
                    zipvars, fs, fs0, prev >>

\* the callback of fs.stat, and lines 517-524
ReadFileStatDone(ok) ==
    /\ pc = "readFileStat"
    /\ IF ~ok THEN Catch("IOFailure")
       ELSE IF fs.entries = "file" THEN Catch("UnexpectedArchiveLayout")
       ELSE /\ pc' = "moveFiles"
            /\ UNCHANGED << failure, surfaced, out, exitCode >>
    /\ fault' = (fault \/ ~ok)
    /\ UNCHANGED << host, runs, argv, probe, osInfo, resolved, requests, download, data,
                    zipvars, fs, fs0, prev >>

\* rename(2) of a directory: the target may be absent or an empty directory
renameAllowed(target) == target \in {"absent", "empty"}

\* the callback of fs.rename, lines 402-410, then makePrinceExecutable,
\* lines 412-423, whose chmodSync may throw, and line 530
MoveFilesDone(ok, chmodOK) ==
    /\ pc = "moveFiles"
    /\ ok => renameAllowed(fs.destdir)
    /\ IF ~ok
       THEN /\ Catch("IOFailure")
            /\ UNCHANGED fs
       ELSE IF ~chmodOK
       THEN /\ Catch("IOFailure")
            /\ fs' = [fs EXCEPT !.destdir = IF fs.entries = "dir" THEN "complete" ELSE "partial",
                                !.chmod = FALSE, !.entries = "none"]
       ELSE /\ fs' = [fs EXCEPT !.destdir = IF fs.entries = "dir" THEN "complete" ELSE "partial",
                                !.chmod = TRUE, !.entries = "none"]
            /\ pc' = "removeTmpDir"
            /\ UNCHANGED << failure, surfaced, out, exitCode >>
    /\ fault' = (fault \/ (~ok /\ renameAllowed(fs.destdir)) \/ (ok /\ ~chmodOK))
    /\ UNCHANGED << host, runs, argv, probe, osInfo, resolved, requests, download, data,
                    zipvars, fs0, prev >>

\* fs.rmdir(dir, {recursive: true})
Removed(disk) == [disk EXCEPT !.tmp = "absent", !.zip = "absent", !.entries = "none"]

\* the callback of fs.rmdir for the removeTmpDir of line 530
RemoveTmpDirDone(ok) ==
    /\ pc = "removeTmpDir"
    /\ IF ok
       THEN /\ fs' = Removed(fs)
            /\ pc' = "idle"
            /\ UNCHANGED << failure, surfaced, out, exitCode >>
       ELSE /\ Catch("IOFailure")
            /\ UNCHANGED fs
    /\ fault' = (fault \/ ~ok)
    /\ UNCHANGED << host, runs, argv, probe, osInfo, resolved, requests, download, data,
                    zipvars, fs0, prev >>

\* the callback of fs.rmdir for the removeTmpDir of the catch block, line 532,
\* and line 534
CatchDone(ok) ==
    /\ pc = "catch"
    /\ IF ok
       THEN /\ fs' = Removed(fs)
            /\ UnhandledAs(failure.step, failure.err, failure.err, {})
       ELSE /\ UNCHANGED fs
            /\ UnhandledAs(failure.step, failure.err, "IOFailure", {})
    /\ fault' = (fault \/ ~ok)
    /\ UNCHANGED << host, runs, argv, probe, osInfo, resolved, requests, download, data,
                    zipvars, fs0, prev >>

(***************************************************************************)
(* uninstall, lines 576-586.                                               *)
(***************************************************************************)
existsSync_always(dir) == TRUE

\* fs.existsSync
existsSync(dir) == dir # "absent"

UninstallStart ==
    /\ pc = "main"
    /\ dispatch(argv) = "uninstall"
    /\ IF existsSync(fs.destdir)
       THEN /\ out' = out \cup {"++ deleting locally unpacked PrinceXML distribution"}
            /\ pc' = "rimraf"
       ELSE /\ out' = out
            /\ pc' = "idle"
    /\ UNCHANGED << host, fault, runs, argv, probe, osInfo, resolved, requests, download, data,
                    failure, surfaced, zipvars, exitCode, fs, fs0, prev >>

\* the callback of rimraf, lines 581-584
RimrafDone(error, left) ==
    /\ pc = "rimraf"
    /\ left \in Broken(fs.destdir)
    /\ IF error
       THEN /\ fs' = [fs EXCEPT !.destdir = left]
            /\ failure' = [step |-> "uninstall", err |-> "IOFailure"]
            /\ surfaced' = "IOFailure"
            /\ out' = out \cup {"** ERROR"}
       ELSE /\ fs' = [fs EXCEPT !.destdir = "absent", !.chmod = FALSE]
            /\ out' = out \cup {"-- OK: done"}
            /\ UNCHANGED << failure, surfaced >>
    /\ pc' = "idle"
    /\ fault' = (fault \/ error)
    /\ UNCHANGED << host, runs, argv, probe, osInfo, resolved, requests, download, data,
                    zipvars, exitCode, fs0, prev >>

(***************************************************************************)
(* The specification.                                                      *)
(***************************************************************************)
Next ==
    \/ \E a \in Argvs : Start(a)
    \/ InvalidArguments
    \/ InstallStart
    \/ \E o \in ProbeOutcomes : ProbeDone(o)
    \/ \E o \in ShtoolOutcomes : ShtoolDone(o)
    \/ \E env \in Envs : DownloadData(env)
    \/ \E res \in NpmResults : NpmConfigDone(res)
    \/ \E resp \in Responses : Response(resp)
    \/ \E io \in {"ok", "writeFileSync throws", "mkdirp throws"} : LinuxUnpack(io)
    \/ \E event \in {"close", "error", "stream error"}, left \in {"absent", "empty", "partial", "complete"} :
          TarballDone(event, left)
    \/ DarwinUnpack
    \/ \E ok \in BOOLEAN : CreateTmpDirDone(ok)
    \/ WriteFileStep
    \/ WriteFileFails
    \/ \E found \in {"no file", "error", "none", "dir", "dirTruncated", "file", "two"} :
          UnzipArchiveDone(found)
    \/ \E ok \in BOOLEAN : ReadDirDone(ok)
    \/ \E ok \in BOOLEAN : ReadFileStatDone(ok)
    \/ \E ok \in BOOLEAN, chmodOK \in BOOLEAN : MoveFilesDone(ok, chmodOK)
    \/ \E ok \in BOOLEAN : RemoveTmpDirDone(ok)
    \/ \E ok \in BOOLEAN : CatchDone(ok)
    \/ UninstallStart
    \/ \E error \in BOOLEAN, left \in {"absent", "empty", "partial", "complete"} :
          RimrafDone(error, left)
    \/ Exit

Spec == Init /\ [][Next]_vars

(***************************************************************************)
(* Properties.                                                             *)
(***************************************************************************)

\* C1: when the probe finds a prince executable whose banner parses, the
\* run resolves no download URL, issues no request, writes no file, leaves
\* the managed directory and everything next to it as it was, has nothing
\* left to do, and ends with status 0 and without a failure.
C1_ProbeFoundShortCircuits ==
    probe.kind = "resolve" =>
        /\ resolved = None
        /\ osInfo = None
        /\ requests = 0
        /\ ~data
        /\ fs = fs0
        /\ writing = "none"
        /\ failure = NoFailure
        /\ surfaced = "none"
        /\ pc \in {"idle", "exited"}
        /\ pc = "exited" => exitCode = 0

\* a run on a host with a complete managed directory found prince on the path and has ended
C1_Witness ==
    /\ probe.kind = "resolve"
    /\ pc = "exited"
    /\ exitCode = 0
    /\ fs.destdir = "complete"

\* C2: each of the three failures of the probe (not on the path, --version
\* fails, banner does not parse) makes install go on to the download path in
\* the same way, and no run fails with the error of the probe.
C2_ProbeFailureProceeds ==
    probe.kind = "reject" =>
        /\ "++ downloading PrinceXML distribution" \in out
        /\ "-- found prince(1) command" \notin out
        /\ pc = "shtool" \/ resolved # None
        /\ failure.err \notin {"NotFound", "VersionFailed", "UnexpectedOutput"}
        /\ surfaced \notin {"NotFound", "VersionFailed", "UnexpectedOutput"}

\* a run whose probe found prince with a banner that does not parse has
\* downloaded the distribution
C2_Witness ==
    /\ probe.kind = "reject"
    /\ probe.err = "UnexpectedOutput"
    /\ requests = 1
    /\ data

\* C3: a run in which a step after the probe (platform identification,
\* resolution, fetch, extraction) has failed ends with a non-zero exit
\* status and has reported the originating error; no later step has run.
C3_StepFailureIsFatal ==
    (pc = "exited" /\ failure.step \in {"identify", "resolve", "fetch", "extract"}) =>
        /\ exitCode # 0
        /\ surfaced = failure.err
        /\ failure.step \in {"identify", "resolve"} => requests = 0
        /\ failure.step = "fetch" => fs = fs0

\* C4: after an install run has ended, the managed directory is absent, or
\* as it was before the run, or holds a complete distribution.
C4_NoPartialInstall ==
    (pc = "exited" /\ dispatch(argv) = "install") =>
        \/ fs.destdir = "absent"
        \/ fs.destdir = fs0.destdir
        \/ fs.destdir = "complete"

\* C5, as stated: every uninstall run ends with status 0, without an error
\* and with the managed directory removed, and an uninstall run that follows
\* an uninstall run changes nothing on disk and prints nothing.
C5_UninstallAlwaysRemoves ==
    (pc = "exited" /\ dispatch(argv) = "uninstall") =>
        /\ exitCode = 0
        /\ failure = NoFailure
        /\ "** ERROR" \notin out
        /\ fs.destdir = "absent"
        /\ prev.cmd = "uninstall" => (fs = fs0 /\ out = {})

\* C5, amended: every uninstall run ends with status 0; it has removed the
\* managed directory unless the recursive removal failed, and then it has
\* printed the error; an uninstall run that follows an uninstall run without
\* such a failure changes nothing on disk, prints nothing and does not fail.
C5_UninstallIdempotent ==
    (pc = "exited" /\ dispatch(argv) = "uninstall") =>
        /\ exitCode = 0
        /\ failure = NoFailure => fs.destdir = "absent"
        /\ failure # NoFailure => ("** ERROR" \in out /\ fault)
        /\ (prev.cmd = "uninstall" /\ ~prev.failed) =>
               (fs = fs0 /\ out = {} /\ failure = NoFailure)

\* an uninstall run removed a complete managed directory, and the uninstall
\* run after it has ended
C5_Witness ==
    /\ pc = "exited"
    /\ dispatch(argv) = "uninstall"
    /\ prev.cmd = "uninstall"
    /\ prev.from = "complete"
    /\ ~prev.failed
    /\ fs.destdir = "absent"

\* C6: an install run that downloaded, after an install run that downloaded
\* and did not fail, with no failure of the environment in either, does not
\* fail and leaves the disk as the first run left it.
C6_InstallIdempotent ==
    ( /\ pc = "exited" /\ dispatch(argv) = "install" /\ data /\ ~fault
      /\ prev.cmd = "install" /\ prev.data /\ ~prev.failed /\ ~prev.fault ) =>
        /\ failure = NoFailure
        /\ exitCode = 0
        /\ fs = fs0

\* C7: on Linux with a distro that is not in the table, the run ends failed
\* with UnsupportedPlatform, and without having issued a request.
C7_UnsupportedDistroFails ==
    ( /\ pc = "exited" /\ platform = "linux" /\ osInfo.kind = "resolve"
      /\ osInfo.osName \notin {ubuntu, debian, centos} ) =>
        /\ failure.err = "UnsupportedPlatform"
        /\ exitCode # 0
        /\ requests = 0

\* C8, as stated: on Linux with distro ubuntu, on amd64 and on ix86 alike,
\* the majors 14-15, 16-17, 18-19 and 20-21 resolve to the tarball of
\* 14.04, 16.04, 18.04 and 20.04 for that architecture, and every other
\* version raises UnknownVersion.
C8_UbuntuFourRanges ==
    ( /\ platform = "linux" /\ osInfo.kind = "resolve" /\ osInfo.osName = ubuntu
      /\ osInfo.osCPUArch \in {amd64, ix86} ) =>
        LET major == DecimalValue(SubSeq(osInfo.osVersion, 1,
                                         RunLength(osInfo.osVersion, 1, Digit)))
            on64  == osInfo.osCPUArch = amd64
        IN  resolved =
              CASE major \in 14..15 ->
                     Resolved(IF on64 THEN "ubuntu14.04-amd64.tar.gz" ELSE "ubuntu14.04-i386.tar.gz")
                [] major \in 16..17 ->
                     Resolved(IF on64 THEN "ubuntu16.04-amd64.tar.gz" ELSE "ubuntu16.04-i386.tar.gz")
                [] major \in 18..19 ->
                     Resolved(IF on64 THEN "ubuntu18.04-amd64.tar.gz" ELSE "ubuntu18.04-i386.tar.gz")
                [] major \in 20..21 ->
                     Resolved(IF on64 THEN "ubuntu20.04-amd64.tar.gz" ELSE "ubuntu20.04-i386.tar.gz")
                [] OTHER -> Thrown("UnknownVersion")

\* C8, amended: on Linux with distro ubuntu, on amd64 the majors 14-15,
\* 16-17, 18-19 and 20-21 resolve to the amd64 tarball of 14.04, 16.04, 18.04
\* and 20.04; on ix86 the majors 14-15, 16-17 and 18-19 resolve to the i386
\* tarball of 14.04, 16.04 and 18.04; every other version, 20-21 on ix86
\* among them, raises UnknownVersion and resolves no URL; every other
\* architecture raises an unsupported-architecture error.
C8_UbuntuRanges ==
    (platform = "linux" /\ osInfo.kind = "resolve" /\ osInfo.osName = ubuntu) =>
        LET major == DecimalValue(SubSeq(osInfo.osVersion, 1,
                                         RunLength(osInfo.osVersion, 1, Digit)))
        IN  resolved =
              CASE osInfo.osCPUArch = amd64 /\ major \in 14..15 -> Resolved("ubuntu14.04-amd64.tar.gz")
                [] osInfo.osCPUArch = amd64 /\ major \in 16..17 -> Resolved("ubuntu16.04-amd64.tar.gz")
                [] osInfo.osCPUArch = amd64 /\ major \in 18..19 -> Resolved("ubuntu18.04-amd64.tar.gz")
                [] osInfo.osCPUArch = amd64 /\ major \in 20..21 -> Resolved("ubuntu20.04-amd64.tar.gz")
                [] osInfo.osCPUArch = ix86 /\ major \in 14..15  -> Resolved("ubuntu14.04-i386.tar.gz")
                [] osInfo.osCPUArch = ix86 /\ major \in 16..17  -> Resolved("ubuntu16.04-i386.tar.gz")
                [] osInfo.osCPUArch = ix86 /\ major \in 18..19  -> Resolved("ubuntu18.04-i386.tar.gz")
                [] osInfo.osCPUArch \notin {amd64, ix86}        -> Thrown("UnsupportedArchitecture")
                [] OTHER -> Thrown("UnknownVersion")

\* ubuntu 20.04 on amd64 has resolved to the ubuntu20.04 amd64 tarball of
\* version 14, and install is about to request it
C8_Witness ==
    /\ platform = "linux"
    /\ osInfo.kind = "resolve"
    /\ osInfo.osName = ubuntu
    /\ osInfo.osCPUArch = amd64
    /\ osInfo.osVersion = << "2", "0", ".", "0", "4" >>
    /\ resolved = [kind |-> "resolve", url |-> [version |-> 14, file |-> "ubuntu20.04-amd64.tar.gz"]]
    /\ pc = "request"

\* C9: on win32, once the probe has failed, the resolver has returned the
\* win64 installer for x64 and the win32 installer for x86.
C9_WindowsInstaller ==
    (platform = "win32" /\ resolved # None) =>
        resolved = Resolved(IF arch = "x64" THEN "win64-setup.exe" ELSE "win32-setup.exe")

\* C10: on Linux with distro debian or centos, the resolver returns the
\* tarball of the version (debian 8, 9, 10; centos 6, 7, 8) on amd64 and
\* nothing else, raises UnsupportedPlatform on another architecture and
\* UnknownVersion on another version.
C10_DebianCentOS ==
    ( /\ platform = "linux" /\ osInfo.kind = "resolve"
      /\ osInfo.osName \in {debian, centos} /\ resolved # None ) =>
        LET major == DecimalValue(SubSeq(osInfo.osVersion, 1,
                                         RunLength(osInfo.osVersion, 1, Digit)))
        IN  resolved =
              CASE osInfo.osCPUArch # amd64 -> Thrown("UnsupportedArchitecture")
                [] osInfo.osName = debian /\ major = 10 -> Resolved("debian10-amd64.tar.gz")
                [] osInfo.osName = debian /\ major = 9  -> Resolved("debian9-amd64.tar.gz")
                [] osInfo.osName = debian /\ major = 8  -> Resolved("debian8-amd64.tar.gz")
                [] osInfo.osName = centos /\ major = 8  -> Resolved("centos8-x86_64.tar.gz")
                [] osInfo.osName = centos /\ major = 7  -> Resolved("centos7-x86_64.tar.gz")
                [] osInfo.osName = centos /\ major = 6  -> Resolved("centos6-x86_64.tar.gz")
                [] OTHER -> Thrown("UnknownVersion")

\* C11: on darwin, once the probe has failed and the resolver has run, it
\* has returned the universal zip, whatever shtool printed and whether or
\* not shtool ran without an error.
C11_MacUniversalZip ==
    (platform = "darwin" /\ probe.kind = "reject" /\ pc \notin {"princeInfo", "shtool"}) =>
        resolved = Resolved("macos.zip")

\* a text is an http(s) URL: one of the two schemes, and something after it
IsHttpURL(s) ==
    \/ Len(s) > 7 /\ SubSeq(s, 1, 7) = << "h", "t", "t", "p", ":", "/", "/" >>
    \/ Len(s) > 8 /\ SubSeq(s, 1, 8) = << "h", "t", "t", "p", "s", ":", "/", "/" >>

\* C12: the proxy is settled before the request is issued; a request in
\* flight carries the value of http_proxy when that is set and not empty,
\* and then "npm config get proxy" was not run; otherwise it carries the
\* npm setting when npm ran without an error and the setting is an http(s)
\* URL; otherwise it carries no proxy.
C12_ProxyPrecedence ==
    /\ pc = "npmConfig" => (requests = 0 /\ options.proxy = NoProxy)
    /\ requests > 0 => pc # "npmConfig"
    /\ pc = "response" =>
          LET fromEnv == http_proxy.set /\ Len(http_proxy.value) > 0
          IN  /\ requests = 1
              /\ fromEnv =>
                    /\ options.proxy = [set |-> TRUE, value |-> http_proxy.value]
                    /\ npmProxy = None
              /\ ~fromEnv =>
                    /\ npmProxy.kind = "done"
                    /\ options.proxy =
                          IF ~npmProxy.error /\ IsHttpURL(stripNewline(npmProxy.stdout))
                          THEN [set |-> TRUE, value |-> stripNewline(npmProxy.stdout)]
                          ELSE NoProxy

\* a request is in flight with the proxy of the environment
C12_Witness ==
    /\ pc = "response"
    /\ requests = 1
    /\ http_proxy = [set |-> TRUE, value |-> Proxy_env]
    /\ options.proxy = [set |-> TRUE, value |-> Proxy_env]

\* C13: after a request that ended with a transport error or with a status
\* other than 200, the run has issued exactly that one request, has the
\* failure DownloadFailed and has reported it, has not started to unpack,
\* has written nothing and has left every file as it was, and has nothing
\* left to do.
C13_FailedFetchAborts ==
    /\ requests <= 1
    /\ (response # None /\ (response.error \/ response.statusCode # 200)) =>
          /\ requests = 1
          /\ ~data
          /\ failure = [step |-> "fetch", err |-> "DownloadFailed"]
          /\ surfaced = "DownloadFailed"
          /\ "** ERROR: failed to download" \in out
          /\ "++ locally unpacking PrinceXML distribution" \notin out
          /\ fs = fs0
          /\ writing = "none"
          /\ ~tempDir
          /\ pc \in {"idle", "exited"}

\* a run whose request was answered with status 404 has ended
C13_Witness ==
    /\ pc = "exited"
    /\ response = [error |-> FALSE, statusCode |-> 404]
    /\ requests = 1

\* C14: a process started with anything but the single argument install or
\* uninstall has printed an error about its arguments and nothing else, has
\* ended with status 1, has run no step of install or uninstall and has
\* left every file as it was; a process started with install or uninstall
\* alone prints no such error.
C14_InvalidInvocation ==
    LET accepted == Len(argv) = 1 /\ argv[1] \in {"install", "uninstall"}
        errors   == {"ERROR: invalid number of arguments", "ERROR: invalid argument"}
    IN  /\ (pc \notin {"none", "main"} /\ ~accepted) =>
              /\ pc = "exited"
              /\ exitCode = 1
              /\ out \subseteq errors
              /\ out # {}
              /\ probe = None
              /\ requests = 0
              /\ fs = fs0
        /\ accepted => out \cap errors = {}

\* install with a second argument has ended with status 1 next to a
\* complete managed directory
C14_Witness ==
    /\ pc = "exited"
    /\ argv = << "install", "--force" >>
    /\ exitCode = 1
    /\ out = {"ERROR: invalid number of arguments"}
    /\ fs.destdir = "complete"

\* C15: on darwin, once the listing of the staging directory has been
\* looked at and it is not one directory (here: one plain file, or two
\* entries), the run has failed with UnexpectedArchiveLayout and the
\* managed directory is as it was.
C15_ZipLayoutGuard ==
    ( /\ platform = "darwin" /\ fs.entries \in {"file", "two"}
      /\ pc \notin {"readDir", "readFileStat"} /\ failure.err # "IOFailure" ) =>
        /\ failure = [step |-> "extract", err |-> "UnexpectedArchiveLayout"]
        /\ fs.destdir = fs0.destdir

\* C16: a darwin run that has downloaded and has ended has left no staging
\* directory, and when mkdtemp failed (tempDir was never assigned) the
\* error it reports is the error of mkdtemp.
C16_StagingRemoved ==
    (pc = "exited" /\ platform = "darwin" /\ data) =>
        /\ fs.tmp = "absent"
        /\ (~tempDir /\ failure # NoFailure) => surfaced = failure.err

\* C17: an install run that has downloaded and has ended, without a failure
\* or with a failed extraction, has left no prince.tgz next to the script.
C17_ArchiveRemoved ==
    ( /\ pc = "exited" /\ dispatch(argv) = "install" /\ data
      /\ failure.err \in {"none", "ExtractionFailed"} ) => ~fs.tgz

\* C18: on linux and on darwin, an install run that has unpacked a complete
\* distribution into a managed directory that was absent, and has ended
\* without a failure, has set the mode of the two executables.
C18_ExecutablePermission ==
    ( /\ pc = "exited" /\ platform \in {"linux", "darwin"} /\ data
      /\ failure = NoFailure /\ fs0.destdir = "absent" /\ fs.destdir = "complete" ) =>
        fs.chmod

\* C19: a run in which getLinuxOSInfo did not produce the three fields has
\* ended with the promise rejected and the rejection handled by install:
\* no exception in a callback, no unhandled rejection, a non-zero status,
\* that error reported, and no request.
C19_IdentifyFailureRejects ==
    (pc = "exited" /\ osInfo # None /\ osInfo.kind # "resolve") =>
        /\ osInfo.kind = "reject"
        /\ "Uncaught" \notin out
        /\ "UnhandledPromiseRejectionWarning" \notin out
        /\ exitCode # 0
        /\ surfaced = osInfo.err
        /\ requests = 0

\* C20: on darwin, unzipArchive has read the archive only after
\* fs.writeFile has written all of it, and a run whose fs.writeFile failed
\* ends with a non-zero status.
C20_WriteBeforeUnzip ==
    /\ (platform = "darwin" /\ pc \in {"readDir", "readFileStat", "moveFiles", "removeTmpDir"}) =>
          writing = "done"
    /\ (pc = "exited" /\ writing = "failed") => exitCode # 0

\* C21: an install run that downloads prints "-- OK: local PrinceXML
\* installation now available" only when the extraction has ended without a
\* failure and the managed directory holds the distribution, and every such
\* run that has unpacked a complete distribution into a managed directory
\* that was absent, and has ended without a failure, has printed it.
C21_SuccessReported ==
    /\ "-- OK: local PrinceXML installation now available" \in out =>
          (data /\ failure = NoFailure /\ fs.destdir = "complete")
    /\ ( /\ pc = "exited" /\ dispatch(argv) = "install" /\ data
         /\ failure = NoFailure /\ fs0.destdir = "absent" /\ fs.destdir = "complete" ) =>
          "-- OK: local PrinceXML installation now available" \in out

====
